---- MODULE Spec2Model ----
(***************************************************************************)
(* Model of CrossMarketProject/app.py: a Streamlit script that is re-run   *)
(* from top to bottom on every user interaction, reading a SQLite store    *)
(* through one shared connection.                                          *)
(*                                                                         *)
(* Dates are naturals standing for zero-padded ISO date strings (their     *)
(* order is the lexicographic order SQLite's BETWEEN uses on the strings). *)
(* A stored cell is a tagged value: SQLite columns are dynamically typed,  *)
(* so a price cell may hold a number, NULL, or text.                       *)
(***************************************************************************)
EXTENDS Integers, Sequences, FiniteSets

\* ------------------------------------------------------------------ bounds
MaxDate == 2
MaxRows == 2

Dates == 1..MaxDate

\* ------------------------------------------------------------ cell values
Num(n) == [k |-> "num", v |-> n]
Text(n) == [k |-> "text", v |-> n]
Null == [k |-> "null", v |-> 0]
Bad == [k |-> "bad", v |-> 0]
NaN == [k |-> "nan", v |-> 0]

NumValues == {Num(1)}
RawValues == {Num(1), Null, Text(2), Bad}

Coins == {"bitcoin", "ethereum"}
Tickers == {"^GSPC", "^NSEI", "^IXIC"}
Pages == <<"Home", "Market Snapshot", "SQL Analytics", "Crypto Analysis">>

VARIABLES
    store,      \* the database behind conn
    page,       \* the sidebar radio
    min_date,   \* defaults of the date inputs computed by this run
    max_date,
    start,      \* the date inputs
    end,
    coin,       \* the "Select Coin" box
    selected,   \* the "Select Query" box
    df,         \* the frame this run displays
    metrics,    \* <<>> or <<the four st.metric values>>
    df_long,    \* the melted frame given to the chart
    result,     \* what Run Query displays
    notice,     \* the st.warning text, or "exception" when the run raised
    issued,     \* the date ranges of the queries this run sent to the store
    memo        \* history: <<>> or <<the first aggregation, its inputs,
                \* and whether a later run aggregated the same inputs>>

vars == <<store, page, min_date, max_date, start, end, coin, selected, df,
          metrics, df_long, result, notice, issued, memo>>

\* MIN/MAX over no rows is NULL, which pd.to_datetime turns into NaT
NoDate == 0

\* --------------------------------------------------------------- the store
CryptoRows(coins, dates, vals) == [coin_id : coins, date : dates, price_inr : vals]
OilRows(dates, vals) == [date : dates, price_usd : vals]
StockRows(tickers, dates, vals) == [ticker : tickers, date : dates, close : vals]
CoinRows == {[name |-> "Bitcoin", market_cap |-> 2], [name |-> "Ethereum", market_cap |-> 1]}

Splits(n) == {s \in [1..4 -> 0..n] : s[1] + s[2] + s[3] + s[4] <= n}

\* The stores of at most n rows in all, the rows of each table in any
\* physical order.
Stores(crypto, oil, stock, n) ==
    UNION {[crypto_prices : [1..s[1] -> crypto],
            oil_prices : [1..s[2] -> oil],
            stock_prices : [1..s[3] -> stock],
            cryptocurrencies : [1..s[4] -> CoinRows]] : s \in Splits(n)}

\* ------------------------------------------------------------- SQL pieces
\* LEFT JOIN ... ON l.date = r.date: every left row is kept; it is repeated
\* once per matching right row, and gets NULL in the joined column when no
\* right row matches.  `field` is the right-hand column that is carried.
LeftJoinOnDate(L, R, col, field) ==
    LET Ext(l, cell) == [x \in (DOMAIN l) \cup {col} |-> IF x = col THEN cell ELSE l[x]]
        F[i \in 0..Len(L)] ==
            IF i = 0 THEN <<>>
            ELSE LET l == L[i]
                     OnDate(r) == r.date = l.date
                     m == SelectSeq(R, OnDate)
                 IN F[i - 1] \o (IF m = <<>> THEN <<Ext(l, Null)>>
                                 ELSE [j \in 1..Len(m) |-> Ext(l, m[j][field])])
    IN F[Len(L)]

\* COALESCE(x, 0)
Coalesce(x) == IF x = Null THEN Num(0) ELSE x

\* x BETWEEN lo AND hi
Between(x, lo, hi) == lo <= x /\ x <= hi

\* SELECT MIN(date) as min_d, MAX(date) as max_d FROM crypto_prices
DateRangeQuery(st) ==
    LET ds == {st.crypto_prices[i].date : i \in 1..Len(st.crypto_prices)}
    IN IF ds = {} THEN [min_d |-> NoDate, max_d |-> NoDate]
       ELSE [min_d |-> CHOOSE d \in ds : \A x \in ds : d <= x,
             max_d |-> CHOOSE d \in ds : \A x \in ds : x <= d]

\* The Market Snapshot query, rows in the order the nested-loop join yields
\* them: the physical order of crypto_prices, then of each joined table.
SnapshotQuery(st, s, e) ==
    LET IsGspc(r) == r.ticker = "^GSPC"
        IsNsei(r) == r.ticker = "^NSEI"
        j1 == LeftJoinOnDate(st.crypto_prices, st.oil_prices, "o_price_usd", "price_usd")
        j2 == LeftJoinOnDate(j1, SelectSeq(st.stock_prices, IsGspc), "s1_close", "close")
        j3 == LeftJoinOnDate(j2, SelectSeq(st.stock_prices, IsNsei), "s2_close", "close")
        Where(r) == r.coin_id = "bitcoin" /\ Between(r.date, s, e)
        w == SelectSeq(j3, Where)
    IN [i \in 1..Len(w) |->
           [date |-> w[i].date,
            bitcoin |-> w[i].price_inr,
            oil |-> Coalesce(w[i].o_price_usd),
            sp500 |-> Coalesce(w[i].s1_close),
            nifty |-> Coalesce(w[i].s2_close)]]

\* A read that takes the start date the widget held before this run
ReadSnapshotStale(st, s, e) == SnapshotQuery(st, IF start = NoDate THEN s ELSE start, e)

\* df = pd.read_sql(query, conn): the query, run against the store as it is
ReadSnapshot(st, s, e) == SnapshotQuery(st, s, e)

\* SELECT date, price_inr FROM crypto_prices WHERE coin_id=... AND date BETWEEN ...
SeriesQuery(st, c, s, e) ==
    LET Where(r) == r.coin_id = c /\ Between(r.date, s, e)
        w == SelectSeq(st.crypto_prices, Where)
    IN [i \in 1..Len(w) |-> [date |-> w[i].date, price_inr |-> w[i].price_inr]]

\* SELECT DISTINCT coin_id FROM crypto_prices, in order of first appearance
DistinctCoins(st) ==
    LET t == st.crypto_prices
        First(i) == \A j \in 1..(i - 1) : t[j].coin_id # t[i].coin_id
        F[i \in 0..Len(t)] ==
            IF i = 0 THEN <<>>
            ELSE IF First(i) THEN Append(F[i - 1], t[i].coin_id) ELSE F[i - 1]
    IN F[Len(t)]

\* ---------------------------------------------------------- pandas pieces
\* A frame that is never taken to be empty
EmptyNever(frame) == FALSE

\* df.empty
Empty(frame) == Len(frame) = 0

\* pd.to_numeric(errors="coerce"): numbers stay, numeric text is parsed,
\* None and unparseable text become NaN.
ToNumeric(x) ==
    CASE x.k = "num" -> x
      [] x.k = "text" -> Num(x.v)
      [] OTHER -> NaN

\* No fill at all
FillnaSkipped(x) == x

\* .fillna(0)
Fillna(x) == IF x = NaN THEN Num(0) ELSE x

Coerce(x) == Fillna(ToNumeric(x))

SnapshotCoerce(frame) ==
    [i \in 1..Len(frame) |->
        [date |-> frame[i].date,
         bitcoin |-> Coerce(frame[i].bitcoin),
         oil |-> Coerce(frame[i].oil),
         sp500 |-> Coerce(frame[i].sp500),
         nifty |-> Coerce(frame[i].nifty)]]

SeriesCoerce(frame) ==
    [i \in 1..Len(frame) |->
        [date |-> frame[i].date, price_inr |-> Coerce(frame[i].price_inr)]]

\* round(column.mean(), 2), in hundredths; ties go to the even hundredth,
\* as Python's round does on the exactly representable means reached here.
\* The mean of no rows is NaN.
RoundedMean(frame, col) ==
    LET S[i \in 0..Len(frame)] == IF i = 0 THEN 0 ELSE S[i - 1] + frame[i][col].v
        n == Len(frame)
        q == (100 * S[n]) \div n
        r == (100 * S[n]) % n
    IN IF n = 0 THEN NaN
       ELSE IF 2 * r < n THEN Num(q)
       ELSE IF 2 * r > n THEN Num(q + 1)
       ELSE IF q % 2 = 0 THEN Num(q) ELSE Num(q + 1)

ValueVars == <<"bitcoin", "oil", "sp500", "nifty">>

Metrics(frame) == [c \in {ValueVars[j] : j \in 1..Len(ValueVars)} |-> RoundedMean(frame, c)]

\* A reshape that walks the rows outside and the columns inside
MeltRowMajor(frame, names) ==
    LET k == Len(names)
    IN [x \in 1..(Len(frame) * k) |->
           LET i == ((x - 1) \div k) + 1
               j == ((x - 1) % k) + 1
           IN [date |-> frame[i].date, Market |-> names[j], Price |-> frame[i][names[j]]]]

\* A reshape that leaves the last value column out
MeltDropsLast(frame, names) ==
    LET n == Len(frame)
    IN [x \in 1..(n * (Len(names) - 1)) |->
           LET j == ((x - 1) \div n) + 1
               i == ((x - 1) % n) + 1
           IN [date |-> frame[i].date, Market |-> names[j], Price |-> frame[i][names[j]]]]

\* df.melt(id_vars=["date"], value_vars=names, var_name="Market",
\* value_name="Price"): one block of rows per value column, the columns in
\* the order given, the frame's rows in their order inside each block.
Melt(frame, names) ==
    LET n == Len(frame)
    IN [x \in 1..(n * Len(names)) |->
           LET j == ((x - 1) \div n) + 1
               i == ((x - 1) % n) + 1
           IN [date |-> frame[i].date, Market |-> names[j], Price |-> frame[i][names[j]]]]

\* ------------------------------------------------- SQL Analytics queries
QueryNames ==
    <<"Total Crypto Records", "Total Oil Records", "Total Stock Records",
      "Crypto Date Range", "Top 3 Cryptos by Market Cap",
      "Highest Bitcoin Price", "Highest Oil Price", "Highest NASDAQ Close">>

\* SQLite orders values of different storage classes: numbers before text;
\* text compares bytewise, digits before letters.
SqlKey(x) == CASE x.k = "num" -> x.v [] x.k = "text" -> 100 + x.v [] OTHER -> 200

\* MAX(column): NULLs are skipped; NULL when nothing is left
SqlMax(cells) ==
    LET c == cells \ {Null}
    IN IF c = {} THEN Null
       ELSE CHOOSE x \in c : \A y \in c : SqlKey(y) <= SqlKey(x)

\* ORDER BY market_cap DESC LIMIT 3 (insertion sort, equal keys keep their order)
TopByMarketCap(t) ==
    LET Ins(sorted, r) ==
            LET before == {i \in 1..Len(sorted) : sorted[i].market_cap >= r.market_cap}
                k == Cardinality(before)
            IN SubSeq(sorted, 1, k) \o <<r>> \o SubSeq(sorted, k + 1, Len(sorted))
        F[i \in 0..Len(t)] == IF i = 0 THEN <<>> ELSE Ins(F[i - 1], t[i])
        all == F[Len(t)]
    IN SubSeq(all, 1, IF Len(all) < 3 THEN Len(all) ELSE 3)

Column(t, field) == {t[i][field] : i \in 1..Len(t)}

Execute(st, q) ==
    LET IsBitcoin(r) == r.coin_id = "bitcoin"
        IsIxic(r) == r.ticker = "^IXIC"
        range == DateRangeQuery(st)
    IN CASE q = "Total Crypto Records" -> <<<<Len(st.crypto_prices)>>>>
         [] q = "Total Oil Records" -> <<<<Len(st.oil_prices)>>>>
         [] q = "Total Stock Records" -> <<<<Len(st.stock_prices)>>>>
         [] q = "Crypto Date Range" -> <<<<range.min_d, range.max_d>>>>
         [] q = "Top 3 Cryptos by Market Cap" -> TopByMarketCap(st.cryptocurrencies)
         [] q = "Highest Bitcoin Price" ->
                <<<<SqlMax(Column(SelectSeq(st.crypto_prices, IsBitcoin), "price_inr"))>>>>
         [] q = "Highest Oil Price" -> <<<<SqlMax(Column(st.oil_prices, "price_usd"))>>>>
         [] q = "Highest NASDAQ Close" ->
                <<<<SqlMax(Column(SelectSeq(st.stock_prices, IsIxic), "close"))>>>>

\* ------------------------------------------------------------ the pages
\* One run of the script with the widgets holding the given values.  Every
\* run starts from a blank page: what an earlier run displayed is gone.

\* page == "Home"
HomePage ==
    /\ page' = "Home"
    /\ min_date' = NoDate /\ max_date' = NoDate
    /\ start' = NoDate /\ end' = NoDate /\ coin' = "" /\ selected' = ""
    /\ df' = <<>> /\ metrics' = <<>> /\ df_long' = <<>> /\ result' = <<>>
    /\ notice' = "" /\ issued' = {}
    /\ UNCHANGED <<store, memo>>

\* The first aggregation is remembered; a later one of the same inputs is noted.
Remember(s, e, frame) ==
    IF memo = <<>>
    THEN <<[start |-> s, end |-> e, df |-> frame, again |-> FALSE]>>
    ELSE IF memo[1].start = s /\ memo[1].end = e
         THEN <<[memo[1] EXCEPT !.again = TRUE]>>
         ELSE memo

\* page == "Market Snapshot" with the date inputs holding s and e.  With an
\* empty crypto_prices the defaults are NaT and st.date_input raises.
SnapshotPage(s, e) ==
    LET range == DateRangeQuery(store)
        raw == ReadSnapshot(store, s, e)
        frame == SnapshotCoerce(raw)
    IN /\ page' = "Market Snapshot"
       /\ min_date' = range.min_d /\ max_date' = range.max_d
       /\ coin' = "" /\ selected' = "" /\ result' = <<>>
       /\ UNCHANGED store
       /\ IF range.min_d = NoDate
          THEN /\ start' = NoDate /\ end' = NoDate
               /\ df' = <<>> /\ metrics' = <<>> /\ df_long' = <<>>
               /\ notice' = "exception" /\ issued' = {}
               /\ UNCHANGED memo
          ELSE /\ start' = s /\ end' = e
               /\ issued' = {[start |-> s, end |-> e]}
               /\ memo' = Remember(s, e, IF Empty(raw) THEN raw ELSE frame)
               /\ IF ~Empty(raw)
                  THEN /\ df' = frame
                       /\ metrics' = <<Metrics(frame)>>
                       /\ df_long' = Melt(frame, ValueVars)
                       /\ notice' = ""
                  ELSE /\ df' = raw
                       /\ metrics' = <<>>
                       /\ df_long' = <<>>
                       /\ notice' = "No data available for selected dates."

\* page == "SQL Analytics" with the select box holding q; pressed is the
\* value st.button returns in this run.
SqlAnalyticsPage(q, pressed) ==
    /\ page' = "SQL Analytics"
    /\ selected' = q
    /\ result' = IF pressed THEN Execute(store, q) ELSE <<>>
    /\ min_date' = NoDate /\ max_date' = NoDate
    /\ start' = NoDate /\ end' = NoDate /\ coin' = ""
    /\ df' = <<>> /\ metrics' = <<>> /\ df_long' = <<>>
    /\ notice' = "" /\ issued' = {}
    /\ UNCHANGED <<store, memo>>

\* page == "Crypto Analysis" with the select box holding c and the date
\* inputs s and e.
CryptoPage(c, s, e) ==
    LET range == DateRangeQuery(store)
        raw == SeriesQuery(store, c, s, e)
    IN /\ page' = "Crypto Analysis"
       /\ min_date' = range.min_d /\ max_date' = range.max_d
       /\ selected' = "" /\ result' = <<>>
       /\ metrics' = <<>> /\ df_long' = <<>>
       /\ UNCHANGED <<store, memo>>
       /\ IF range.min_d = NoDate
          THEN /\ start' = NoDate /\ end' = NoDate /\ coin' = ""
               /\ df' = <<>> /\ notice' = "exception" /\ issued' = {}
          ELSE /\ start' = s /\ end' = e /\ coin' = c
               /\ issued' = {[start |-> s, end |-> e]}
               /\ IF ~Empty(raw)
                  THEN df' = SeriesCoerce(raw) /\ notice' = ""
                  ELSE df' = raw /\ notice' = "No data available."

\* ------------------------------------------------------ user interactions
\* The navigation radio; a page's widgets start from their defaults.
Rendered == notice # "exception"

GoHome == page # "Home" /\ HomePage

GoMarketSnapshot ==
    /\ page # "Market Snapshot"
    /\ SnapshotPage(DateRangeQuery(store).min_d, DateRangeQuery(store).max_d)

GoSqlAnalytics == page # "SQL Analytics" /\ SqlAnalyticsPage(QueryNames[1], FALSE)

GoCryptoAnalysis ==
    /\ page # "Crypto Analysis"
    /\ CryptoPage(IF DistinctCoins(store) = <<>> THEN "" ELSE DistinctCoins(store)[1],
                  DateRangeQuery(store).min_d, DateRangeQuery(store).max_d)

\* The user picks other dates: any dates, in either order.
ChangeSnapshotDates ==
    /\ page = "Market Snapshot" /\ Rendered
    /\ \E s \in Dates, e \in Dates : <<s, e>> # <<start, end>> /\ SnapshotPage(s, e)

SelectQuery ==
    /\ page = "SQL Analytics"
    /\ \E i \in 1..Len(QueryNames) :
          QueryNames[i] # selected /\ SqlAnalyticsPage(QueryNames[i], FALSE)

RunQuery == page = "SQL Analytics" /\ SqlAnalyticsPage(selected, TRUE)

SelectCoin ==
    /\ page = "Crypto Analysis" /\ Rendered
    /\ \E i \in 1..Len(DistinctCoins(store)) :
          DistinctCoins(store)[i] # coin /\ CryptoPage(DistinctCoins(store)[i], start, end)

ChangeCryptoDates ==
    /\ page = "Crypto Analysis" /\ Rendered
    /\ \E s \in Dates, e \in Dates : <<s, e>> # <<start, end>> /\ CryptoPage(coin, s, e)

\* --------------------------------------------------------- specifications
\* The script has run once, on the default page, against some store.
Started(stores) ==
    /\ store \in stores
    /\ page = "Home"
    /\ min_date = NoDate /\ max_date = NoDate
    /\ start = NoDate /\ end = NoDate /\ coin = "" /\ selected = ""
    /\ df = <<>> /\ metrics = <<>> /\ df_long = <<>> /\ result = <<>>
    /\ notice = "" /\ issued = {} /\ memo = <<>>

\* Stores of well-formed prices: any coins, tickers and dates.
Init ==
    Started(Stores(CryptoRows(Coins, Dates, NumValues), OilRows(Dates, NumValues),
                   StockRows(Tickers, Dates, NumValues), MaxRows))

\* Stores of one trading day whose price cells hold any kind of value.
InitCoerce ==
    Started(Stores(CryptoRows({"bitcoin"}, {1}, RawValues)
                       \cup CryptoRows({"ethereum"}, {1}, NumValues),
                   OilRows({1}, RawValues),
                   StockRows({"^GSPC", "^NSEI"}, {1}, RawValues), MaxRows))

Next ==
    \/ GoHome
    \/ GoMarketSnapshot
    \/ GoSqlAnalytics
    \/ GoCryptoAnalysis
    \/ ChangeSnapshotDates
    \/ SelectQuery
    \/ RunQuery
    \/ SelectCoin
    \/ ChangeCryptoDates

Spec == Init /\ [][Next]_vars

SpecCoerce == InitCoerce /\ [][Next]_vars

\* ----------------------------------------------------------- properties
OnSnapshot == page = "Market Snapshot" /\ Rendered
OnCrypto == page = "Crypto Analysis" /\ Rendered

\* The positions of the rows of a table that satisfy a condition on (coin, date)
CryptoAt(c, s, e) ==
    {i \in 1..Len(store.crypto_prices) :
        /\ store.crypto_prices[i].coin_id = c
        /\ s <= store.crypto_prices[i].date
        /\ store.crypto_prices[i].date <= e}

BackboneDates(c, s, e) == {store.crypto_prices[i].date : i \in CryptoAt(c, s, e)}

Ascending(frame) == \A i, j \in 1..Len(frame) : i < j => frame[i].date <= frame[j].date

SetMin(S) == CHOOSE x \in S : \A y \in S : x <= y
SetMax(S) == CHOOSE x \in S : \A y \in S : y <= x

\* C1: for start <= end the aggregation returns as many rows as there are
\* distinct dates on which bitcoin has an observation in the range, and no
\* row exactly when there is no such date, duplicates in any table included.
C1_RowsAreDistinctBackboneDates ==
    (OnSnapshot /\ start <= end) =>
        /\ Len(df) = Cardinality(BackboneDates("bitcoin", start, end))
        /\ (Len(df) = 0 <=> BackboneDates("bitcoin", start, end) = {})

\* The cells a companion series stores for a date
OilCells(d) ==
    {store.oil_prices[i].price_usd :
        i \in {x \in 1..Len(store.oil_prices) : store.oil_prices[x].date = d}}

CloseCells(t, d) ==
    {store.stock_prices[i].close :
        i \in {x \in 1..Len(store.stock_prices) :
                  store.stock_prices[x].date = d /\ store.stock_prices[x].ticker = t}}

BitcoinCells(d) == {store.crypto_prices[i].price_inr : i \in CryptoAt("bitcoin", d, d)}

\* A stored value that is null or does not parse as a number
Unusable(c) == c.k \in {"null", "bad"}

\* C2: every row of the aggregation has its four series fields numeric, and
\* a field is exactly 0 when the store has no row of that series for the
\* row's date or only null or unparseable values there.
C2_FieldsNumericZeroFilled ==
    OnSnapshot =>
        \A i \in 1..Len(df) :
            /\ \A j \in 1..Len(ValueVars) : df[i][ValueVars[j]].k = "num"
            /\ (\A c \in BitcoinCells(df[i].date) : Unusable(c)) => df[i].bitcoin = Num(0)
            /\ (\A c \in OilCells(df[i].date) : Unusable(c)) => df[i].oil = Num(0)
            /\ (\A c \in CloseCells("^GSPC", df[i].date) : Unusable(c)) => df[i].sp500 = Num(0)
            /\ (\A c \in CloseCells("^NSEI", df[i].date) : Unusable(c)) => df[i].nifty = Num(0)

\* A row whose oil cell is unparseable text and whose date has no ^GSPC row
C2_Witness ==
    /\ OnSnapshot
    /\ \E i \in 1..Len(df) :
          /\ OilCells(df[i].date) = {Bad} /\ df[i].oil = Num(0)
          /\ CloseCells("^GSPC", df[i].date) = {} /\ df[i].sp500 = Num(0)

\* C3: the rows of the aggregation are in ascending date order whatever the
\* physical order of the store's rows.
C3_AggregationAscending == OnSnapshot => Ascending(df)

\* C4 as stated: the reshape is row-major, long row (i-1)*k+j coming from
\* aligned row i and series name j (positions counted from 1).
C4_RowMajor ==
    OnSnapshot =>
        \A i \in 1..Len(df) : \A j \in 1..Len(ValueVars) :
            /\ (i - 1) * Len(ValueVars) + j \in DOMAIN df_long
            /\ df_long[(i - 1) * Len(ValueVars) + j] =
                   [date |-> df[i].date, Market |-> ValueVars[j],
                    Price |-> df[i][ValueVars[j]]]

\* C4 amended: the reshape is column-major, long row (j-1)*n+i coming from
\* aligned row i and series name j: the name order is the outer iteration
\* order and the row order the inner one.
C4_ColumnMajor ==
    OnSnapshot =>
        \A i \in 1..Len(df) : \A j \in 1..Len(ValueVars) :
            /\ (j - 1) * Len(df) + i \in DOMAIN df_long
            /\ df_long[(j - 1) * Len(df) + i] =
                   [date |-> df[i].date, Market |-> ValueVars[j],
                    Price |-> df[i][ValueVars[j]]]

\* Two aligned rows of different dates have been reshaped
C4_Witness ==
    /\ OnSnapshot /\ Len(df) = 2 /\ df[1].date # df[2].date
    /\ df_long[2].date = df[2].date /\ df_long[2].Market = "bitcoin"
    /\ df_long[3].date = df[1].date /\ df_long[3].Market = "oil"

\* C5: the reshape gives one long row per aligned row and series name: four
\* times as many long rows as aligned rows, none for no aligned row.
C5_LongRowCount == OnSnapshot => Len(df_long) = Len(df) * 4

\* Two aligned rows have become eight long rows
C5_Witness == OnSnapshot /\ Len(df) = 2 /\ Len(df_long) = 8

C7_NoInvertedRangeIssued == \A q \in issued : q.start <= q.end

\* The number of rows of a frame equal to a given row
Count(frame, r) == Cardinality({i \in 1..Len(frame) : frame[i] = r})

\* C8: the single-series query returns exactly the observations of the
\* selected coin inside the inclusive range, in ascending date order, and
\* the no-data state is shown exactly when there is none.
C8_SeriesExactAscending ==
    OnCrypto =>
        /\ Len(df) = Cardinality(CryptoAt(coin, start, end))
        /\ \A i \in CryptoAt(coin, start, end) :
              LET r == [date |-> store.crypto_prices[i].date,
                        price_inr |-> Coerce(store.crypto_prices[i].price_inr)]
              IN Count(df, r) =
                     Cardinality({x \in CryptoAt(coin, start, end) :
                         /\ store.crypto_prices[x].date = r.date
                         /\ Coerce(store.crypto_prices[x].price_inr) = r.price_inr})
        /\ Ascending(df)
        /\ (Len(df) = 0 <=> notice = "No data available.")

\* C9: the default range of a page is the span of that page's primary
\* series alone: the least and the greatest date on which bitcoin (Market
\* Snapshot) or the selected coin (Crypto Analysis) has an observation.
C9_DefaultIsPrimarySpan ==
    (OnSnapshot \/ OnCrypto) =>
        LET c == IF page = "Market Snapshot" THEN "bitcoin" ELSE coin
            ds == BackboneDates(c, 1, MaxDate)
        IN ds # {} => (min_date = SetMin(ds) /\ max_date = SetMax(ds))

====
